---- MODULE Spec2Model ----
(***************************************************************************)
(* ICTutor forum: the reply-thread assembler and the quote composer of    *)
(* the thread page, and the Firestore storage layer behind the HTTP routes *)
(* (users, posts, replies, votes, solution marking), the latter at the     *)
(* granularity of individual database calls.                               *)
(***************************************************************************)
EXTENDS Integers, Sequences, FiniteSets, TLC

\* ------------------------------------------------------------------------
\* Bounds
\* ------------------------------------------------------------------------
MaxLen == 4
MaxTime == 3
MaxPostId == 2
MaxReplyId == 2
MaxVoteId == 2
MaxCount == 2
MaxQuoteDepth == 4
MaxCycleLen == 2

\* replyText.length > 100 ? replyText.substring(0, 100) + '...' : replyText
QuoteLimit == 100

\* JavaScript null / undefined for ids (document ids start at 1)
NULL == 0

VARIABLES
  dataReplies,       \* the replies argument of organizeRepliesIntoThreads
  sortedReplies,
  topLevelReplies,
  childReplies,
  replyMap,
  currentParentId,
  topParentId,
  idx,               \* position of the second forEach in sortedReplies
  tpc,               \* control point inside organizeRepliesIntoThreads
  composer,          \* createReply.mutationFn of the thread page: position and locals
  posts,             \* Firestore collection 'posts', document id -> data
  replies,           \* Firestore collection 'replies'
  votes,             \* Firestore collection 'votes'
  users,             \* Firestore collection 'users', document id = Firebase uid
  req                \* HTTP requests in flight: handler position and locals

threadVars == <<dataReplies, sortedReplies, topLevelReplies, childReplies,
                replyMap, currentParentId, topParentId, idx, tpc, composer>>

dbVars == <<posts, replies, votes, users>>

vars == <<dataReplies, sortedReplies, topLevelReplies, childReplies,
          replyMap, currentParentId, topParentId, idx, tpc, composer,
          posts, replies, votes, users, req>>

\* JavaScript truthiness of a number | null
Truthy(n) == n # NULL /\ n # 0

Users == {"alice", "bob"}
VoteTypes == {"upvote", "downvote"}
Requests == {1, 2}

\* result of a read that found no document (doc.exists false / undefined)
NoDoc == [id |-> NULL]

\* locals of a request handler that has not started
IdleReq ==
  [pc |-> "idle", op |-> "none", status |-> 0,
   userId |-> "", postId |-> NULL, replyId |-> NULL, voteType |-> "",
   parentReplyId |-> NULL, username |-> "",
   id |-> NULL, post |-> NoDoc, reply |-> NoDoc, existingVote |-> NoDoc,
   vote |-> NoDoc, oldSolutionReply |-> NoDoc,
   repliesSnapshot |-> {}, votesSnapshot |-> {}]

\* ------------------------------------------------------------------------
\* Quote composer (createReply.mutationFn of the thread page)
\* Strings are sequences of one-character strings.
\* ------------------------------------------------------------------------
\* the thread page before any reply was written: no reply to respond to
IdleComposer ==
  [pc |-> "idle", target |-> <<>>, targetReplyTo |-> "none",
   targetContent |-> <<>>, replyTo |-> "none", username |-> <<>>,
   content |-> <<>>, replyText |-> <<>>, quoteText |-> <<>>,
   finalContent |-> <<>>, posted |-> 0]

\* String.prototype.includes for a single character
Includes(s, ch) == \E i \in 1..Len(s) : s[i] = ch

\* String.prototype.split('\n')
RECURSIVE SplitLines(_)
SplitLines(s) ==
  IF ~Includes(s, "\n") THEN <<s>>
  ELSE LET i == CHOOSE k \in 1..Len(s) :
                  s[k] = "\n" /\ \A j \in 1..(k - 1) : s[j] # "\n"
       IN <<SubSeq(s, 1, i - 1)>> \o SplitLines(SubSeq(s, i + 1, Len(s)))

\* Array.prototype.join('\n')
RECURSIVE JoinLines(_)
JoinLines(lines) ==
  IF lines = <<>> THEN <<>>
  ELSE IF Len(lines) = 1 THEN lines[1]
  ELSE lines[1] \o <<"\n">> \o JoinLines(Tail(lines))

\* line.startsWith('>')
StartsWithQuote(line) == Len(line) > 0 /\ line[1] = ">"

\* lines.findIndex(line => line.startsWith('>')), counted from 1; 0 for -1
FindQuoteStart(lines) ==
  IF \A k \in 1..Len(lines) : ~StartsWithQuote(lines[k]) THEN 0
  ELSE CHOOSE k \in 1..Len(lines) :
         /\ StartsWithQuote(lines[k])
         /\ \A j \in 1..(k - 1) : ~StartsWithQuote(lines[j])

\* the while loop: the last line of the run of '>' lines that starts at start
FindQuoteEnd(lines, start) ==
  CHOOSE e \in start..Len(lines) :
    /\ \A j \in start..e : StartsWithQuote(lines[j])
    /\ e + 1 <= Len(lines) => ~StartsWithQuote(lines[e + 1])

Whitespace == {" ", "\n"}

\* String.prototype.trim
RECURSIVE Trim(_)
Trim(s) ==
  IF s = <<>> THEN s
  ELSE IF s[1] \in Whitespace THEN Trim(Tail(s))
  ELSE IF s[Len(s)] \in Whitespace THEN Trim(SubSeq(s, 1, Len(s) - 1))
  ELSE s

\* 'extract just the reply part': the text after the first block of '>' lines
StripQuote(text) ==
  IF Includes(text, "@") /\ Includes(text, ">")
  THEN LET lines == SplitLines(text)
           quoteStartIndex == FindQuoteStart(lines)
       IN IF quoteStartIndex >= 1
          THEN Trim(JoinLines(SubSeq(lines,
                                     FindQuoteEnd(lines, quoteStartIndex) + 1,
                                     Len(lines))))
          ELSE text
  ELSE text

\* a text of n characters whose last character differs from the others
Text(n) == [i \in 1..n |-> IF i = n THEN "b" ELSE "a"]

\* what users type into the reply box: short and long texts around the
\* quote limit, and texts that contain the markers the composer looks for
NewTexts ==
  {Text(1), Text(QuoteLimit), Text(QuoteLimit + 1),
   <<">", " ", "a">>, <<"@", "a">>, <<"a", "\n", ">", "b", "\n", "c">>}

\* replyTo.username of the reply being answered (may be empty)
ReplyToNames == {<<"b", "o", "b">>, <<>>}

\* replyTo.username || 'Unknown'
AuthorName(username) ==
  IF username # <<>> THEN username ELSE <<"U", "n", "k", "n", "o", "w", "n">>

\* the user submits the reply form; replyTo is unset ("none"), set to a reply
\* that replyMap does not hold ("missing"), or set to the last posted reply.
\* Without a reply object the content is posted as typed.
ComposerStart ==
  /\ composer.pc \in {"idle", "posted"}
  /\ composer.posted < MaxQuoteDepth
  /\ \E content \in NewTexts :
       \/ \E kind \in {"none", "missing"} :
            composer' = [composer EXCEPT
                           !.pc = "posted", !.replyTo = kind, !.content = content,
                           !.username = <<>>, !.target = <<>>,
                           !.targetReplyTo = "none", !.targetContent = <<>>,
                           !.replyText = <<>>, !.quoteText = <<>>,
                           !.finalContent = content, !.posted = @ + 1]
       \/ /\ composer.pc = "posted"
          /\ \E username \in ReplyToNames :
               composer' = [composer EXCEPT
                              !.pc = "strip", !.replyTo = "found",
                              !.content = content, !.username = username,
                              !.target = composer.finalContent,
                              !.targetReplyTo = composer.replyTo,
                              !.targetContent = composer.content,
                              !.replyText = composer.finalContent,
                              !.quoteText = <<>>]
  /\ UNCHANGED <<dataReplies, sortedReplies, topLevelReplies, childReplies,
                 replyMap, currentParentId, topParentId, idx, tpc>>
  /\ UNCHANGED <<dbVars, req>>

\* if (replyText.includes('@') && replyText.includes('>')) { ... }
ComposerStrip ==
  /\ composer.pc = "strip"
  /\ composer' = [composer EXCEPT !.pc = "truncate",
                                  !.replyText = StripQuote(composer.replyText)]
  /\ UNCHANGED <<dataReplies, sortedReplies, topLevelReplies, childReplies,
                 replyMap, currentParentId, topParentId, idx, tpc>>
  /\ UNCHANGED <<dbVars, req>>

\* variant that cuts the text without appending the ellipsis
TruncateNoEllipsis(replyText) ==
  IF Len(replyText) > QuoteLimit THEN SubSeq(replyText, 1, QuoteLimit)
  ELSE replyText

\* replyText.length > 100 ? replyText.substring(0, 100) + '...' : replyText
Truncate(replyText) ==
  IF Len(replyText) > QuoteLimit
  THEN SubSeq(replyText, 1, QuoteLimit) \o <<".", ".", ".">>
  ELSE replyText

ComposerTruncate ==
  /\ composer.pc = "truncate"
  /\ composer' = [composer EXCEPT !.pc = "compose",
                                  !.quoteText = Truncate(composer.replyText)]
  /\ UNCHANGED <<dataReplies, sortedReplies, topLevelReplies, childReplies,
                 replyMap, currentParentId, topParentId, idx, tpc>>
  /\ UNCHANGED <<dbVars, req>>

\* finalContent = `@${replyTo.username || 'Unknown'}:\n> ${quoteText}\n\n${content}`,
\* then the reply is posted
ComposerCompose ==
  /\ composer.pc = "compose"
  /\ composer' = [composer EXCEPT
                    !.pc = "posted", !.posted = @ + 1,
                    !.finalContent =
                       <<"@">> \o AuthorName(composer.username)
                       \o <<":", "\n", ">", " ">> \o composer.quoteText
                       \o <<"\n", "\n">> \o composer.content]
  /\ UNCHANGED <<dataReplies, sortedReplies, topLevelReplies, childReplies,
                 replyMap, currentParentId, topParentId, idx, tpc>>
  /\ UNCHANGED <<dbVars, req>>

\* ------------------------------------------------------------------------
\* Thread assembler (organizeRepliesIntoThreads of the thread page)
\* ------------------------------------------------------------------------

\* variant with the comparator reversed (b.createdAt - a.createdAt)
RECURSIVE InsertByCreatedAtDesc(_, _)
InsertByCreatedAtDesc(s, x) ==
  IF s = <<>> THEN <<x>>
  ELSE IF x.createdAt - Head(s).createdAt <= 0
       THEN <<Head(s)>> \o InsertByCreatedAtDesc(Tail(s), x)
       ELSE <<x>> \o s

\* Array.prototype.sort with comparator a.createdAt - b.createdAt (stable):
\* insertion of x after every element that is not later than x.
RECURSIVE InsertByCreatedAt(_, _)
InsertByCreatedAt(s, x) ==
  IF s = <<>> THEN <<x>>
  ELSE IF Head(s).createdAt - x.createdAt <= 0
       THEN <<Head(s)>> \o InsertByCreatedAt(Tail(s), x)
       ELSE <<x>> \o s

RECURSIVE SortByCreatedAt(_)
SortByCreatedAt(s) ==
  IF s = <<>> THEN <<>>
  ELSE InsertByCreatedAt(SortByCreatedAt(SubSeq(s, 1, Len(s) - 1)), s[Len(s)])

\* replyMap[reply.id] = reply for every reply, later entries overwriting
BuildReplyMap(s) ==
  [i \in {s[k].id : k \in 1..Len(s)} |->
     s[CHOOSE k \in 1..Len(s) :
         /\ s[k].id = i
         /\ \A j \in 1..Len(s) : s[j].id = i => j <= k]]

\* replyMap[id]?.parentReplyId is truthy
HasParent(m, id) == id \in DOMAIN m /\ Truthy(m[id].parentReplyId)

\* variant that replaces the bucket instead of appending to it
PushChildOverwrite(c, key, reply) ==
  [k \in DOMAIN c \cup {key} |-> IF k = key THEN <<reply>> ELSE c[k]]

\* if (!childReplies[key]) childReplies[key] = []; childReplies[key].push(reply)
PushChild(c, key, reply) ==
  IF key \in DOMAIN c
  THEN [c EXCEPT ![key] = Append(@, reply)]
  ELSE [k \in DOMAIN c \cup {key} |-> IF k = key THEN <<reply>> ELSE c[k]]

\* !reply.parentReplyId
IsTopLevel(reply) == ~Truthy(reply.parentReplyId)

\* the reply lists of up to maxLen replies handed to the assembler: distinct
\* ids in ascending or descending order, any parent reference, any times
ThreadInputs(maxLen) ==
  { [i \in 1..n |-> [id |-> IF rev THEN n + 1 - i ELSE i,
                     parentReplyId |-> par[i],
                     createdAt |-> tm[i]]] :
      <<n, par, tm, rev>> \in
        UNION { {n1} \X [1..n1 -> 0..(maxLen + 1)] \X [1..n1 -> 1..MaxTime]
                     \X BOOLEAN : n1 \in 0..maxLen } }

InitThreads ==
  /\ dataReplies \in ThreadInputs(MaxLen)
  /\ sortedReplies = <<>>
  /\ topLevelReplies = <<>>
  /\ childReplies = <<>>
  /\ replyMap = <<>>
  /\ currentParentId = NULL
  /\ topParentId = NULL
  /\ idx = 0
  /\ tpc = "sort"
  /\ composer = IdleComposer
  /\ posts = <<>>
  /\ replies = <<>>
  /\ votes = <<>>
  /\ users = <<>>
  /\ req = [r \in Requests |-> IdleReq]

\* const sortedReplies = [...replies].sort(...); build replyMap
SortReplies ==
  /\ tpc = "sort"
  /\ sortedReplies' = SortByCreatedAt(dataReplies)
  /\ replyMap' = BuildReplyMap(SortByCreatedAt(dataReplies))
  /\ idx' = 1
  /\ tpc' = "organize"
  /\ UNCHANGED <<dataReplies, topLevelReplies, childReplies,
                 currentParentId, topParentId>>
  /\ UNCHANGED <<posts, replies, votes, users, req, composer>>

\* one iteration of the second forEach, up to the start of the while loop
OrganizeReply ==
  /\ tpc = "organize"
  /\ idx <= Len(sortedReplies)
  /\ LET reply == sortedReplies[idx] IN
       IF IsTopLevel(reply)
       THEN /\ topLevelReplies' = Append(topLevelReplies, reply)
            /\ idx' = idx + 1
            /\ UNCHANGED <<childReplies, currentParentId, topParentId, tpc>>
       ELSE IF ~HasParent(replyMap, reply.parentReplyId)
       THEN /\ childReplies' = PushChild(childReplies, reply.parentReplyId, reply)
            /\ idx' = idx + 1
            /\ UNCHANGED <<topLevelReplies, currentParentId, topParentId, tpc>>
       ELSE /\ currentParentId' = reply.parentReplyId
            /\ topParentId' = reply.parentReplyId
            /\ tpc' = "walk"
            /\ UNCHANGED <<topLevelReplies, childReplies, idx>>
  /\ UNCHANGED <<dataReplies, sortedReplies, replyMap>>
  /\ UNCHANGED <<posts, replies, votes, users, req, composer>>

\* one iteration of while (currentParentId && replyMap[currentParentId]?.parentReplyId)
WalkUp ==
  /\ tpc = "walk"
  /\ Truthy(currentParentId) /\ HasParent(replyMap, currentParentId)
  /\ currentParentId' = replyMap[currentParentId].parentReplyId
  /\ topParentId' = replyMap[currentParentId].parentReplyId
  /\ UNCHANGED <<dataReplies, sortedReplies, replyMap, topLevelReplies,
                 childReplies, idx, tpc>>
  /\ UNCHANGED <<posts, replies, votes, users, req, composer>>

\* variant without the walk's result: the reply is filed under its direct parent
AttachToParent ==
  /\ tpc = "walk"
  /\ ~(Truthy(currentParentId) /\ HasParent(replyMap, currentParentId))
  /\ childReplies' = PushChild(childReplies, sortedReplies[idx].parentReplyId,
                               sortedReplies[idx])
  /\ idx' = idx + 1
  /\ tpc' = "organize"
  /\ currentParentId' = NULL
  /\ topParentId' = NULL
  /\ UNCHANGED <<dataReplies, sortedReplies, replyMap, topLevelReplies>>
  /\ UNCHANGED <<posts, replies, votes, users, req, composer>>

\* loop exit: add the reply to the top parent's children
AttachToTop ==
  /\ tpc = "walk"
  /\ ~(Truthy(currentParentId) /\ HasParent(replyMap, currentParentId))
  /\ childReplies' = IF Truthy(topParentId)
                     THEN PushChild(childReplies, topParentId, sortedReplies[idx])
                     ELSE childReplies
  /\ idx' = idx + 1
  /\ tpc' = "organize"
  /\ currentParentId' = NULL
  /\ topParentId' = NULL
  /\ UNCHANGED <<dataReplies, sortedReplies, replyMap, topLevelReplies>>
  /\ UNCHANGED <<posts, replies, votes, users, req, composer>>

\* the two trailing sorts and the return
SortBuckets ==
  /\ tpc = "organize"
  /\ idx > Len(sortedReplies)
  /\ topLevelReplies' = SortByCreatedAt(topLevelReplies)
  /\ childReplies' = [k \in DOMAIN childReplies |-> SortByCreatedAt(childReplies[k])]
  /\ tpc' = "done"
  /\ UNCHANGED <<dataReplies, sortedReplies, replyMap, currentParentId,
                 topParentId, idx>>
  /\ UNCHANGED <<posts, replies, votes, users, req, composer>>

NextThreads ==
  \/ SortReplies
  \/ OrganizeReply
  \/ WalkUp
  \/ AttachToTop
  \/ SortBuckets

SpecThreads == InitThreads /\ [][NextThreads]_vars

\* the reply lists of up to MaxCycleLen replies: long enough for a reply that
\* is its own parent and for two replies that are each other's parent
InitShortThreads ==
  /\ dataReplies \in ThreadInputs(MaxCycleLen)
  /\ sortedReplies = <<>>
  /\ topLevelReplies = <<>>
  /\ childReplies = <<>>
  /\ replyMap = <<>>
  /\ currentParentId = NULL
  /\ topParentId = NULL
  /\ idx = 0
  /\ tpc = "sort"
  /\ composer = IdleComposer
  /\ posts = <<>>
  /\ replies = <<>>
  /\ votes = <<>>
  /\ users = <<>>
  /\ req = [r \in Requests |-> IdleReq]

\* the function runs on the page's JavaScript thread without interruption:
\* whenever a step is possible, one is eventually taken
SpecThreadsFair ==
  InitShortThreads /\ [][NextThreads]_vars /\ WF_vars(NextThreads)

\* ------------------------------------------------------------------------
\* Storage layer (FirestoreStorage) and the routes that call it
\* ------------------------------------------------------------------------
\* collection.doc(id).get()
GetDoc(coll, id) == IF id \in DOMAIN coll THEN coll[id] ELSE NoDoc

\* collection.doc(id).set(data): creates or overwrites
SetDoc(coll, id, data) ==
  [k \in DOMAIN coll \cup {id} |-> IF k = id THEN data ELSE coll[k]]

\* batch.delete(ref) for every ref, then batch.commit()
DeleteDocs(coll, ids) == [k \in DOMAIN coll \ ids |-> coll[k]]

\* orderBy('id', 'desc').limit(1): (last.id || 0), 0 on an empty collection
LastId(coll) ==
  IF DOMAIN coll = {} THEN 0
  ELSE CHOOSE m \in {coll[k].id : k \in DOMAIN coll} :
         \A k \in DOMAIN coll : coll[k].id <= m

InFlight(r) == req[r].pc \notin {"idle", "done"}
Running(op) == Cardinality({r \in Requests : InFlight(r) /\ req[r].op = op})

Finish(r, code) == [req EXCEPT ![r].pc = "done", ![r].status = code]

Begin(op, pc) == [IdleReq EXCEPT !.pc = pc, !.op = op]

\* ---- POST /api/users -> storage.createUser ---------------------------------
\* display names sent by clients (generateUsername() or the profile form)
UserNames == {"RedFox", "BlueOwl", "TealElk"}

\* the body is passed to the storage layer as it is
StartCreateUser(r) ==
  /\ ~InFlight(r)
  /\ \E u \in Users, n \in UserNames :
       req' = [req EXCEPT ![r] = [Begin("createUser", "cu_set") EXCEPT
                                   !.userId = u, !.username = n]]
  /\ UNCHANGED <<dbVars, threadVars>>

\* createUser: users.doc(user.id).set(user)
CreateUserSet(r) ==
  /\ req[r].pc = "cu_set"
  /\ users' = SetDoc(users, req[r].userId,
                     [id |-> req[r].userId, username |-> req[r].username])
  /\ req' = Finish(r, 200)
  /\ UNCHANGED <<posts, replies, votes, threadVars>>

\* ---- PATCH /api/users/:id/username -> storage.updateUsername --------------
StartUpdateUsername(r) ==
  /\ ~InFlight(r)
  /\ \E u \in Users, n \in UserNames :
       req' = [req EXCEPT ![r] = [Begin("updateUsername", "un_check") EXCEPT
                                   !.userId = u, !.username = n]]
  /\ UNCHANGED <<dbVars, threadVars>>

\* getUserByUsername: users.where('username', '==', username).limit(1)
UsersNamed(username) == {u \in DOMAIN users : users[u].username = username}

\* route: existing = await storage.getUserByUsername(username); taken -> 400
UpdateUsernameCheck(r) ==
  /\ req[r].pc = "un_check"
  /\ req' = IF UsersNamed(req[r].username) # {} THEN Finish(r, 400)
            ELSE [req EXCEPT ![r].pc = "un_get"]
  /\ UNCHANGED <<dbVars, threadVars>>

\* updateUsername: userDoc = await userRef.get(); 'User not found' -> 400
UpdateUsernameGet(r) ==
  /\ req[r].pc = "un_get"
  /\ req' = IF req[r].userId \notin DOMAIN users THEN Finish(r, 400)
            ELSE [req EXCEPT ![r].pc = "un_update"]
  /\ UNCHANGED <<dbVars, threadVars>>

\* updateUsername: userRef.update({ username }); rejects on a missing document
UpdateUsernameUpdate(r) ==
  /\ req[r].pc = "un_update"
  /\ IF req[r].userId \in DOMAIN users
     THEN /\ users' = [users EXCEPT ![req[r].userId].username = req[r].username]
          /\ req' = Finish(r, 200)
     ELSE /\ users' = users
          /\ req' = Finish(r, 400)
  /\ UNCHANGED <<posts, replies, votes, threadVars>>

\* ---- POST /api/posts -> storage.createPost --------------------------------
\* authors: the authorId values of the request bodies
StartCreatePost(r, authors) ==
  /\ ~InFlight(r)
  /\ LastId(posts) + Running("createPost") < MaxPostId
  /\ \E u \in authors :
       req' = [req EXCEPT ![r] = [Begin("createPost", "cp_last") EXCEPT !.userId = u]]
  /\ UNCHANGED <<dbVars, threadVars>>

\* postsRef.orderBy('id','desc').limit(1).get(); id = last + 1
CreatePostReadLast(r) ==
  /\ req[r].pc = "cp_last"
  /\ LastId(posts) < MaxPostId
  /\ req' = [req EXCEPT ![r].id = LastId(posts) + 1, ![r].pc = "cp_set"]
  /\ UNCHANGED <<dbVars, threadVars>>

\* postsRef.doc(id.toString()).set(newPost)
CreatePostSet(r) ==
  /\ req[r].pc = "cp_set"
  /\ posts' = SetDoc(posts, req[r].id,
                     [id |-> req[r].id, authorId |-> req[r].userId,
                      upvotes |-> 0, downvotes |-> 0, solutionId |-> NULL])
  /\ req' = Finish(r, 200)
  /\ UNCHANGED <<replies, votes, users, threadVars>>

\* ---- POST /api/posts/:id/replies -> storage.createReply -------------------
\* authors, parents: the authorId and parentReplyId values of the request bodies
StartCreateReply(r, authors, parents) ==
  /\ ~InFlight(r)
  /\ LastId(replies) + Running("createReply") < MaxReplyId
  /\ \E u \in authors, p \in 1..MaxPostId, par \in parents :
       req' = [req EXCEPT ![r] = [Begin("createReply", "cr_getPost") EXCEPT
                                   !.userId = u, !.postId = p, !.parentReplyId = par]]
  /\ UNCHANGED <<dbVars, threadVars>>

\* route: storage.getPost(postId), 404 when missing
CreateReplyGetPost(r) ==
  /\ req[r].pc = "cr_getPost"
  /\ req' = IF GetDoc(posts, req[r].postId) = NoDoc
            THEN Finish(r, 404)
            ELSE [req EXCEPT ![r].post = GetDoc(posts, req[r].postId),
                             ![r].pc = "cr_last"]
  /\ UNCHANGED <<dbVars, threadVars>>

\* repliesRef.orderBy('id','desc').limit(1).get(); id = last + 1
CreateReplyReadLast(r) ==
  /\ req[r].pc = "cr_last"
  /\ LastId(replies) < MaxReplyId
  /\ req' = [req EXCEPT ![r].id = LastId(replies) + 1, ![r].pc = "cr_set"]
  /\ UNCHANGED <<dbVars, threadVars>>

\* repliesRef.doc(id.toString()).set(newReply); parentReplyId || null
CreateReplySet(r) ==
  /\ req[r].pc = "cr_set"
  /\ replies' = SetDoc(replies, req[r].id,
                       [id |-> req[r].id, postId |-> req[r].postId,
                        authorId |-> req[r].userId,
                        parentReplyId |-> IF Truthy(req[r].parentReplyId)
                                          THEN req[r].parentReplyId ELSE NULL,
                        upvotes |-> 0, downvotes |-> 0, isSolution |-> FALSE])
  /\ req' = Finish(r, 200)
  /\ UNCHANGED <<posts, votes, users, threadVars>>

\* ---- POST /api/posts/:id/vote, POST /api/replies/:id/vote -----------------
\* the document a vote request or a stored vote refers to
TargetOfPost(v) == Truthy(v.postId)

\* getVote: where userId == .. and postId == .. (else replyId == ..), limit(1);
\* without orderBy Firestore returns matches in document-id order
MatchingVotes(userId, postId, replyId) ==
  {k \in DOMAIN votes :
     /\ votes[k].userId = userId
     /\ IF Truthy(postId) THEN votes[k].postId = postId
                          ELSE votes[k].replyId = replyId}

GetVote(userId, postId, replyId) ==
  IF MatchingVotes(userId, postId, replyId) = {} THEN NoDoc
  ELSE votes[CHOOSE k \in MatchingVotes(userId, postId, replyId) :
               \A j \in MatchingVotes(userId, postId, replyId) : k <= j]

\* a vote request is admitted while the target's counters are below MaxCount
\* and, unless the voter's vote on the target is stored, a vote id is free
VoteAdmitted(u, postId, replyId) ==
  /\ GetVote(u, postId, replyId) = NoDoc
       => LastId(votes) + Running("vote") < MaxVoteId
  /\ LET target == IF Truthy(postId) THEN GetDoc(posts, postId)
                                     ELSE GetDoc(replies, replyId)
     IN target # NoDoc => target.upvotes < MaxCount /\ target.downvotes < MaxCount

\* postIds, replyIds: the :id values of the two vote routes
StartVote(r, postIds, replyIds) ==
  /\ ~InFlight(r)
  /\ \E u \in Users, t \in VoteTypes :
       \/ \E p \in postIds :
            /\ VoteAdmitted(u, p, NULL)
            /\ req' = [req EXCEPT ![r] = [Begin("vote", "v_getTarget") EXCEPT
                         !.userId = u, !.voteType = t, !.postId = p]]
       \/ \E c \in replyIds :
            /\ VoteAdmitted(u, NULL, c)
            /\ req' = [req EXCEPT ![r] = [Begin("vote", "v_getTarget") EXCEPT
                         !.userId = u, !.voteType = t, !.replyId = c]]
  /\ UNCHANGED <<dbVars, threadVars>>

\* route: storage.getPost / storage.getReply, 404 when missing
VoteGetTarget(r) ==
  /\ req[r].pc = "v_getTarget"
  /\ LET target == IF TargetOfPost(req[r]) THEN GetDoc(posts, req[r].postId)
                                           ELSE GetDoc(replies, req[r].replyId)
     IN req' = IF target = NoDoc THEN Finish(r, 404)
               ELSE [req EXCEPT ![r].pc = "cv_getVote"]
  /\ UNCHANGED <<dbVars, threadVars>>

\* variant without "return existingVote": a vote of the same type falls
\* through to the insertion
CreateVoteGetVoteFallThrough(r) ==
  /\ req[r].pc = "cv_getVote"
  /\ LET existing == GetVote(req[r].userId, req[r].postId, req[r].replyId) IN
       req' = IF existing = NoDoc
              THEN [req EXCEPT ![r].pc = "cv_last"]
              ELSE IF existing.voteType # req[r].voteType
              THEN [req EXCEPT ![r].existingVote = existing, ![r].pc = "uv_get"]
              ELSE [req EXCEPT ![r].existingVote = existing, ![r].pc = "cv_last"]
  /\ UNCHANGED <<dbVars, threadVars>>

\* createVote: existingVote = await this.getVote(...)
CreateVoteGetVote(r) ==
  /\ req[r].pc = "cv_getVote"
  /\ LET existing == GetVote(req[r].userId, req[r].postId, req[r].replyId) IN
       req' = IF existing = NoDoc
              THEN [req EXCEPT ![r].pc = "cv_last"]
              ELSE IF existing.voteType # req[r].voteType
              THEN [req EXCEPT ![r].existingVote = existing, ![r].pc = "uv_get"]
              ELSE [req EXCEPT ![r].existingVote = existing,
                               ![r].pc = "done", ![r].status = 200]
  /\ UNCHANGED <<dbVars, threadVars>>

\* votesRef.orderBy('id','desc').limit(1).get(); id = last + 1
CreateVoteReadLast(r) ==
  /\ req[r].pc = "cv_last"
  /\ LastId(votes) < MaxVoteId
  /\ req' = [req EXCEPT ![r].id = LastId(votes) + 1, ![r].pc = "cv_set"]
  /\ UNCHANGED <<dbVars, threadVars>>

\* votesRef.doc(id.toString()).set(newVote)
CreateVoteSet(r) ==
  /\ req[r].pc = "cv_set"
  /\ votes' = SetDoc(votes, req[r].id,
                     [id |-> req[r].id, userId |-> req[r].userId,
                      postId |-> req[r].postId, replyId |-> req[r].replyId,
                      voteType |-> req[r].voteType])
  /\ req' = [req EXCEPT ![r].pc = "cv_getTarget"]
  /\ UNCHANGED <<posts, replies, users, threadVars>>

\* createVote: post = await this.getPost(..) / reply = await this.getReply(..)
CreateVoteGetTarget(r) ==
  /\ req[r].pc = "cv_getTarget"
  /\ req' = IF TargetOfPost(req[r])
            THEN IF GetDoc(posts, req[r].postId) = NoDoc THEN Finish(r, 200)
                 ELSE [req EXCEPT ![r].post = GetDoc(posts, req[r].postId),
                                  ![r].pc = "cv_count"]
            ELSE IF GetDoc(replies, req[r].replyId) = NoDoc THEN Finish(r, 200)
                 ELSE [req EXCEPT ![r].reply = GetDoc(replies, req[r].replyId),
                                  ![r].pc = "cv_count"]
  /\ UNCHANGED <<dbVars, threadVars>>

\* value written by createVote to the counter it read as n
Incremented(n) == n + 1

\* variant without the floor at zero
DecrementedUnclamped(n) == n - 1

\* value written by updateVote to the old type's counter it read as n
Decremented(n) == IF n - 1 > 0 THEN n - 1 ELSE 0

\* ref.update({upvotes: ..}) or ref.update({downvotes: ..}) on an existing document
WithCount(doc, voteType, n) ==
  IF voteType = "upvote" THEN [doc EXCEPT !.upvotes = n]
                         ELSE [doc EXCEPT !.downvotes = n]

CountOf(doc, voteType) ==
  IF voteType = "upvote" THEN doc.upvotes ELSE doc.downvotes

\* variant that increments the stored counter (FieldValue.increment(1))
\* instead of writing the value read earlier plus one
CreateVoteIncrementInPlace(r) ==
  /\ req[r].pc = "cv_count"
  /\ IF TargetOfPost(req[r]) /\ req[r].postId \in DOMAIN posts
     THEN posts' = [posts EXCEPT ![req[r].postId] =
                      WithCount(@, req[r].voteType,
                                Incremented(CountOf(@, req[r].voteType)))]
     ELSE posts' = posts
  /\ IF ~TargetOfPost(req[r]) /\ req[r].replyId \in DOMAIN replies
     THEN replies' = [replies EXCEPT ![req[r].replyId] =
                        WithCount(@, req[r].voteType,
                                  Incremented(CountOf(@, req[r].voteType)))]
     ELSE replies' = replies
  /\ req' = Finish(r, 200)
  /\ UNCHANGED <<votes, users, threadVars>>

\* createVote: postRef.update({upvotes: (post.upvotes || 0) + 1}) and the
\* three like it; update() of a missing document rejects, the route answers 400
CreateVoteUpdateCount(r) ==
  /\ req[r].pc = "cv_count"
  /\ IF TargetOfPost(req[r])
     THEN IF req[r].postId \in DOMAIN posts
          THEN /\ posts' = [posts EXCEPT ![req[r].postId] =
                              WithCount(@, req[r].voteType,
                                Incremented(CountOf(req[r].post, req[r].voteType)))]
               /\ req' = Finish(r, 200)
          ELSE /\ posts' = posts
               /\ req' = Finish(r, 400)
     ELSE posts' = posts
  /\ IF ~TargetOfPost(req[r])
     THEN IF req[r].replyId \in DOMAIN replies
          THEN /\ replies' = [replies EXCEPT ![req[r].replyId] =
                                WithCount(@, req[r].voteType,
                                  Incremented(CountOf(req[r].reply, req[r].voteType)))]
               /\ req' = Finish(r, 200)
          ELSE /\ replies' = replies
               /\ req' = Finish(r, 400)
     ELSE replies' = replies
  /\ UNCHANGED <<votes, users, threadVars>>

\* updateVote: voteDoc = await voteRef.get(); "Vote not found" -> 400
UpdateVoteGet(r) ==
  /\ req[r].pc = "uv_get"
  /\ LET vote == GetDoc(votes, req[r].existingVote.id) IN
       req' = IF vote = NoDoc THEN Finish(r, 400)
              ELSE IF vote.voteType # req[r].voteType
              THEN [req EXCEPT ![r].vote = vote, ![r].pc = "uv_getTarget"]
              ELSE [req EXCEPT ![r].vote = vote, ![r].pc = "uv_setType"]
  /\ UNCHANGED <<dbVars, threadVars>>

\* updateVote: the target is read through the stored vote's postId / replyId
UpdateVoteGetTarget(r) ==
  /\ req[r].pc = "uv_getTarget"
  /\ req' = IF TargetOfPost(req[r].vote)
            THEN IF GetDoc(posts, req[r].vote.postId) = NoDoc
                 THEN [req EXCEPT ![r].pc = "uv_setType"]
                 ELSE [req EXCEPT ![r].post = GetDoc(posts, req[r].vote.postId),
                                  ![r].pc = "uv_dec"]
            ELSE IF ~Truthy(req[r].vote.replyId)
                    \/ GetDoc(replies, req[r].vote.replyId) = NoDoc
                 THEN [req EXCEPT ![r].pc = "uv_setType"]
                 ELSE [req EXCEPT ![r].reply = GetDoc(replies, req[r].vote.replyId),
                                  ![r].pc = "uv_dec"]
  /\ UNCHANGED <<dbVars, threadVars>>

\* one counter write of updateVote: the old type's counter (decrement) or the
\* new type's counter (increment), both computed from the same earlier read
UpdateVoteWrite(r, voteType, n, nextPc) ==
  /\ IF TargetOfPost(req[r].vote)
     THEN IF req[r].vote.postId \in DOMAIN posts
          THEN /\ posts' = [posts EXCEPT ![req[r].vote.postId] =
                              WithCount(@, voteType, n)]
               /\ req' = [req EXCEPT ![r].pc = nextPc]
          ELSE /\ posts' = posts
               /\ req' = Finish(r, 400)
     ELSE posts' = posts
  /\ IF ~TargetOfPost(req[r].vote)
     THEN IF req[r].vote.replyId \in DOMAIN replies
          THEN /\ replies' = [replies EXCEPT ![req[r].vote.replyId] =
                                WithCount(@, voteType, n)]
               /\ req' = [req EXCEPT ![r].pc = nextPc]
          ELSE /\ replies' = replies
               /\ req' = Finish(r, 400)
     ELSE replies' = replies
  /\ UNCHANGED <<votes, users, threadVars>>

\* the snapshot updateVote computes both counters from
UpdateVoteRead(r) ==
  IF TargetOfPost(req[r].vote) THEN req[r].post ELSE req[r].reply

\* updateVote: update({<old>: Math.max(0, (<old> || 0) - 1)})
UpdateVoteDecrement(r) ==
  /\ req[r].pc = "uv_dec"
  /\ UpdateVoteWrite(r, req[r].vote.voteType,
                     Decremented(CountOf(UpdateVoteRead(r), req[r].vote.voteType)),
                     "uv_inc")

\* updateVote: update({<new>: (<new> || 0) + 1})
UpdateVoteIncrement(r) ==
  /\ req[r].pc = "uv_inc"
  /\ UpdateVoteWrite(r, req[r].voteType,
                     Incremented(CountOf(UpdateVoteRead(r), req[r].voteType)),
                     "uv_setType")

\* updateVote: voteRef.update({ voteType })
UpdateVoteSetType(r) ==
  /\ req[r].pc = "uv_setType"
  /\ IF req[r].vote.id \in DOMAIN votes
     THEN /\ votes' = [votes EXCEPT ![req[r].vote.id].voteType = req[r].voteType]
          /\ req' = Finish(r, 200)
     ELSE /\ votes' = votes
          /\ req' = Finish(r, 400)
  /\ UNCHANGED <<posts, replies, users, threadVars>>

\* ---- GET /api/posts/:id/vote, GET /api/replies/:id/vote -------------------
\* postIds, replyIds: the :id values of the two lookup routes
StartGetVote(r, postIds, replyIds) ==
  /\ ~InFlight(r)
  /\ \E u \in Users :
       \/ \E p \in postIds :
            req' = [req EXCEPT ![r] = [Begin("getVote", "gv_lookup") EXCEPT
                                        !.userId = u, !.postId = p]]
       \/ \E c \in replyIds :
            req' = [req EXCEPT ![r] = [Begin("getVote", "gv_lookup") EXCEPT
                                        !.userId = u, !.replyId = c]]
  /\ UNCHANGED <<dbVars, threadVars>>

\* variant in which getVote throws on an empty snapshot: the route's catch
\* answers 500
GetVoteLookupThrows(r) ==
  /\ req[r].pc = "gv_lookup"
  /\ LET vote == GetVote(req[r].userId, req[r].postId, req[r].replyId) IN
       req' = IF vote = NoDoc THEN Finish(r, 500)
              ELSE [req EXCEPT ![r].existingVote = vote,
                               ![r].pc = "done", ![r].status = 200]
  /\ UNCHANGED <<dbVars, threadVars>>

\* route: vote = await storage.getVote(userId, postId, null);
\* undefined -> 404 'Vote not found', else the vote
GetVoteLookup(r) ==
  /\ req[r].pc = "gv_lookup"
  /\ LET vote == GetVote(req[r].userId, req[r].postId, req[r].replyId) IN
       req' = IF vote = NoDoc THEN Finish(r, 404)
              ELSE [req EXCEPT ![r].existingVote = vote,
                               ![r].pc = "done", ![r].status = 200]
  /\ UNCHANGED <<dbVars, threadVars>>

\* ---- POST /api/posts/:postId/replies/:replyId/solution --------------------
\* callers: the userId values of the request bodies
StartMarkSolution(r, callers) ==
  /\ ~InFlight(r)
  /\ \E u \in callers, p \in 1..MaxPostId, c \in 1..MaxReplyId :
       req' = [req EXCEPT ![r] = [Begin("markSolution", "ms_authorize") EXCEPT
                                   !.userId = u, !.postId = p, !.replyId = c]]
  /\ UNCHANGED <<dbVars, threadVars>>

\* variant without the comparison of post.authorId with req.body.userId
AuthorizeSolutionChangeAnyone(r, nextPc) ==
  /\ req' = IF GetDoc(posts, req[r].postId) = NoDoc THEN Finish(r, 404)
            ELSE [req EXCEPT ![r].pc = nextPc]
  /\ UNCHANGED <<dbVars, threadVars>>

\* route: post = await storage.getPost(postId); 404 / 403
\* (shared by the mark and the remove route, which differ in the next step)
AuthorizeSolutionChange(r, nextPc) ==
  /\ LET post == GetDoc(posts, req[r].postId) IN
       req' = IF post = NoDoc THEN Finish(r, 404)
              ELSE IF post.authorId # req[r].userId THEN Finish(r, 403)
              ELSE [req EXCEPT ![r].pc = nextPc]
  /\ UNCHANGED <<dbVars, threadVars>>

MarkSolutionAuthorize(r) ==
  /\ req[r].pc = "ms_authorize"
  /\ AuthorizeSolutionChange(r, "ms_getPost")

\* markAsSolution: post = await this.getPost(postId); throw -> 400
MarkSolutionGetPost(r) ==
  /\ req[r].pc = "ms_getPost"
  /\ req' = IF GetDoc(posts, req[r].postId) = NoDoc THEN Finish(r, 400)
            ELSE [req EXCEPT ![r].post = GetDoc(posts, req[r].postId),
                             ![r].pc = "ms_getReply"]
  /\ UNCHANGED <<dbVars, threadVars>>

\* variant that only checks that the reply exists
MarkSolutionGetReplyAnyPost(r) ==
  /\ req[r].pc = "ms_getReply"
  /\ LET reply == GetDoc(replies, req[r].replyId) IN
       req' = IF reply = NoDoc THEN Finish(r, 400)
              ELSE [req EXCEPT ![r].reply = reply,
                               ![r].pc = IF Truthy(req[r].post.solutionId)
                                         THEN "ms_getOld" ELSE "ms_setFlag"]
  /\ UNCHANGED <<dbVars, threadVars>>

\* markAsSolution: reply = await this.getReply(replyId); must belong to the post
MarkSolutionGetReply(r) ==
  /\ req[r].pc = "ms_getReply"
  /\ LET reply == GetDoc(replies, req[r].replyId) IN
       req' = IF reply = NoDoc \/ reply.postId # req[r].postId THEN Finish(r, 400)
              ELSE [req EXCEPT ![r].reply = reply,
                               ![r].pc = IF Truthy(req[r].post.solutionId)
                                         THEN "ms_getOld" ELSE "ms_setFlag"]
  /\ UNCHANGED <<dbVars, threadVars>>

\* markAsSolution: oldSolutionReply = await this.getReply(post.solutionId)
MarkSolutionGetOld(r) ==
  /\ req[r].pc = "ms_getOld"
  /\ LET old == GetDoc(replies, req[r].post.solutionId) IN
       req' = [req EXCEPT ![r].oldSolutionReply = old,
                          ![r].pc = IF old = NoDoc THEN "ms_setFlag" ELSE "ms_clearOld"]
  /\ UNCHANGED <<dbVars, threadVars>>

\* replies.doc(id).update({ isSolution: flag }); rejects on a missing document
SetSolutionFlag(r, id, flag, nextReq) ==
  /\ IF id \in DOMAIN replies
     THEN /\ replies' = [replies EXCEPT ![id].isSolution = flag]
          /\ req' = nextReq
     ELSE /\ replies' = replies
          /\ req' = Finish(r, 400)
  /\ UNCHANGED <<posts, votes, users, threadVars>>

\* posts.doc(postId).update({ solutionId: value }); rejects on a missing document
SetPostSolution(r, value, failCode) ==
  /\ IF req[r].postId \in DOMAIN posts
     THEN /\ posts' = [posts EXCEPT ![req[r].postId].solutionId = value]
          /\ req' = Finish(r, 200)
     ELSE /\ posts' = posts
          /\ req' = Finish(r, failCode)
  /\ UNCHANGED <<replies, votes, users, threadVars>>

\* variant that leaves the previous solution flagged
MarkSolutionKeepOld(r) ==
  /\ req[r].pc = "ms_clearOld"
  /\ req' = [req EXCEPT ![r].pc = "ms_setFlag"]
  /\ UNCHANGED <<dbVars, threadVars>>

\* markAsSolution: unmark the previous solution
MarkSolutionClearOld(r) ==
  /\ req[r].pc = "ms_clearOld"
  /\ SetSolutionFlag(r, req[r].oldSolutionReply.id, FALSE,
                     [req EXCEPT ![r].pc = "ms_setFlag"])

\* markAsSolution: mark the new reply as solution
MarkSolutionSetFlag(r) ==
  /\ req[r].pc = "ms_setFlag"
  /\ SetSolutionFlag(r, req[r].replyId, TRUE, [req EXCEPT ![r].pc = "ms_setPost"])

\* markAsSolution: update the post with the solution reply id
MarkSolutionSetPost(r) ==
  /\ req[r].pc = "ms_setPost"
  /\ SetPostSolution(r, req[r].replyId, 400)

\* ---- DELETE /api/posts/:postId/solution -----------------------------------
StartRemoveSolution(r, callers) ==
  /\ ~InFlight(r)
  /\ \E u \in callers, p \in 1..MaxPostId :
       req' = [req EXCEPT ![r] = [Begin("removeSolution", "rs_authorize") EXCEPT
                                   !.userId = u, !.postId = p]]
  /\ UNCHANGED <<dbVars, threadVars>>

RemoveSolutionAuthorize(r) ==
  /\ req[r].pc = "rs_authorize"
  /\ AuthorizeSolutionChange(r, "rs_getPost")

\* removeSolution: post = await this.getPost(postId); nothing to do without solutionId
RemoveSolutionGetPost(r) ==
  /\ req[r].pc = "rs_getPost"
  /\ LET post == GetDoc(posts, req[r].postId) IN
       req' = IF post = NoDoc THEN Finish(r, 400)
              ELSE IF ~Truthy(post.solutionId)
              THEN [req EXCEPT ![r].post = post, ![r].pc = "done", ![r].status = 200]
              ELSE [req EXCEPT ![r].post = post, ![r].pc = "rs_getOld"]
  /\ UNCHANGED <<dbVars, threadVars>>

\* removeSolution: solutionReply = await this.getReply(post.solutionId)
RemoveSolutionGetOld(r) ==
  /\ req[r].pc = "rs_getOld"
  /\ LET old == GetDoc(replies, req[r].post.solutionId) IN
       req' = [req EXCEPT ![r].oldSolutionReply = old,
                          ![r].pc = IF old = NoDoc THEN "rs_setPost" ELSE "rs_clearOld"]
  /\ UNCHANGED <<dbVars, threadVars>>

RemoveSolutionClearOld(r) ==
  /\ req[r].pc = "rs_clearOld"
  /\ SetSolutionFlag(r, req[r].oldSolutionReply.id, FALSE,
                     [req EXCEPT ![r].pc = "rs_setPost"])

\* variant that leaves the post's reference in place
RemoveSolutionKeepReference(r) ==
  /\ req[r].pc = "rs_setPost"
  /\ req' = Finish(r, 200)
  /\ UNCHANGED <<dbVars, threadVars>>

\* removeSolution: remove the solution id from the post
RemoveSolutionSetPost(r) ==
  /\ req[r].pc = "rs_setPost"
  /\ SetPostSolution(r, NULL, 400)

\* ---- DELETE /api/posts/:id -> storage.deletePost ---------------------------
StartDeletePost(r) ==
  /\ ~InFlight(r)
  /\ \E u \in Users, p \in 1..MaxPostId :
       req' = [req EXCEPT ![r] = [Begin("deletePost", "dp_getPost") EXCEPT
                                   !.userId = u, !.postId = p]]
  /\ UNCHANGED <<dbVars, threadVars>>

\* variant without the ownership check
DeletePostGetPostAnyone(r) ==
  /\ req[r].pc = "dp_getPost"
  /\ LET post == GetDoc(posts, req[r].postId) IN
       req' = IF post = NoDoc THEN Finish(r, 500)
              ELSE [req EXCEPT ![r].post = post, ![r].pc = "dp_queryReplies"]
  /\ UNCHANGED <<dbVars, threadVars>>

\* deletePost: getPost; 'Post not found' -> 500, 'Unauthorized' -> 403
DeletePostGetPost(r) ==
  /\ req[r].pc = "dp_getPost"
  /\ LET post == GetDoc(posts, req[r].postId) IN
       req' = IF post = NoDoc THEN Finish(r, 500)
              ELSE IF post.authorId # req[r].userId
              THEN [req EXCEPT ![r].post = post, ![r].pc = "done", ![r].status = 403]
              ELSE [req EXCEPT ![r].post = post, ![r].pc = "dp_queryReplies"]
  /\ UNCHANGED <<dbVars, threadVars>>

\* replies.where('postId', '==', id).get()
RepliesOfPost(id) == {k \in DOMAIN replies : replies[k].postId = id}

\* votes.where('postId', '==', id).get()
VotesOnPost(id) == {k \in DOMAIN votes : votes[k].postId = id}

\* votes.where('replyId', '==', id).get()
VotesOnReply(id) == {k \in DOMAIN votes : votes[k].replyId = id}

DeletePostQueryReplies(r) ==
  /\ req[r].pc = "dp_queryReplies"
  /\ req' = [req EXCEPT ![r].repliesSnapshot = RepliesOfPost(req[r].postId),
                        ![r].pc = "dp_queryVotes"]
  /\ UNCHANGED <<dbVars, threadVars>>

DeletePostQueryVotes(r) ==
  /\ req[r].pc = "dp_queryVotes"
  /\ req' = [req EXCEPT ![r].votesSnapshot = VotesOnPost(req[r].postId),
                        ![r].pc = "dp_commit"]
  /\ UNCHANGED <<dbVars, threadVars>>

\* batch.commit(): the replies, the votes on the post, the post
DeletePostCommit(r) ==
  /\ req[r].pc = "dp_commit"
  /\ replies' = DeleteDocs(replies, req[r].repliesSnapshot)
  /\ votes' = DeleteDocs(votes, req[r].votesSnapshot)
  /\ posts' = DeleteDocs(posts, {req[r].postId})
  /\ req' = Finish(r, 200)
  /\ UNCHANGED <<users, threadVars>>

\* ---- DELETE /api/replies/:id -> storage.deleteReply ------------------------
StartDeleteReply(r) ==
  /\ ~InFlight(r)
  /\ \E u \in Users, c \in 1..MaxReplyId :
       req' = [req EXCEPT ![r] = [Begin("deleteReply", "dr_getReply") EXCEPT
                                   !.userId = u, !.replyId = c]]
  /\ UNCHANGED <<dbVars, threadVars>>

\* deleteReply: getReply; 'Reply not found' -> 500, 'Unauthorized' -> 403
DeleteReplyGetReply(r) ==
  /\ req[r].pc = "dr_getReply"
  /\ LET reply == GetDoc(replies, req[r].replyId) IN
       req' = IF reply = NoDoc THEN Finish(r, 500)
              ELSE IF reply.authorId # req[r].userId
              THEN [req EXCEPT ![r].reply = reply, ![r].pc = "done", ![r].status = 403]
              ELSE [req EXCEPT ![r].reply = reply, ![r].postId = reply.postId,
                               ![r].pc = "dr_getPost"]
  /\ UNCHANGED <<dbVars, threadVars>>

\* variant without the solution check: the post's reference is never cleared
DeleteReplyGetPostNoClear(r) ==
  /\ req[r].pc = "dr_getPost"
  /\ req' = [req EXCEPT ![r].post = GetDoc(posts, req[r].reply.postId),
                        ![r].pc = "dr_queryVotes"]
  /\ UNCHANGED <<dbVars, threadVars>>

\* deleteReply: post = await this.getPost(reply.postId); is the reply its solution?
DeleteReplyGetPost(r) ==
  /\ req[r].pc = "dr_getPost"
  /\ LET post == GetDoc(posts, req[r].reply.postId) IN
       req' = [req EXCEPT ![r].post = post,
                          ![r].pc = IF post # NoDoc /\ post.solutionId = req[r].replyId
                                    THEN "dr_clearSolution" ELSE "dr_queryVotes"]
  /\ UNCHANGED <<dbVars, threadVars>>

\* deleteReply: posts.doc(reply.postId).update({ solutionId: null }); reject -> 500
DeleteReplyClearSolution(r) ==
  /\ req[r].pc = "dr_clearSolution"
  /\ IF req[r].reply.postId \in DOMAIN posts
     THEN /\ posts' = [posts EXCEPT ![req[r].reply.postId].solutionId = NULL]
          /\ req' = [req EXCEPT ![r].pc = "dr_queryVotes"]
     ELSE /\ posts' = posts
          /\ req' = Finish(r, 500)
  /\ UNCHANGED <<replies, votes, users, threadVars>>

DeleteReplyQueryVotes(r) ==
  /\ req[r].pc = "dr_queryVotes"
  /\ req' = [req EXCEPT ![r].votesSnapshot = VotesOnReply(req[r].replyId),
                        ![r].pc = "dr_commit"]
  /\ UNCHANGED <<dbVars, threadVars>>

\* batch.commit(): the votes on the reply, the reply
DeleteReplyCommit(r) ==
  /\ req[r].pc = "dr_commit"
  /\ votes' = DeleteDocs(votes, req[r].votesSnapshot)
  /\ replies' = DeleteDocs(replies, {req[r].replyId})
  /\ req' = Finish(r, 200)
  /\ UNCHANGED <<posts, users, threadVars>>

\* ---- Specifications --------------------------------------------------------
Init ==
  /\ dataReplies = <<>>
  /\ sortedReplies = <<>>
  /\ topLevelReplies = <<>>
  /\ childReplies = <<>>
  /\ replyMap = <<>>
  /\ currentParentId = NULL
  /\ topParentId = NULL
  /\ idx = 0
  /\ tpc = "idle"
  /\ composer = IdleComposer
  /\ posts = <<>>
  /\ replies = <<>>
  /\ votes = <<>>
  /\ users = <<>>
  /\ req = [r \in Requests |-> IdleReq]

Author == {"alice"}
AnyPost == 1..MaxPostId
AnyReply == 1..MaxReplyId
FirstPost == {LastId(<<>>) + 1}

CreatePostSteps(r) ==
  \/ CreatePostReadLast(r) \/ CreatePostSet(r)

CreateReplySteps(r) ==
  \/ CreateReplyGetPost(r) \/ CreateReplyReadLast(r) \/ CreateReplySet(r)

VoteSteps(r) ==
  \/ VoteGetTarget(r) \/ CreateVoteGetVote(r) \/ CreateVoteReadLast(r)
  \/ CreateVoteSet(r) \/ CreateVoteGetTarget(r) \/ CreateVoteUpdateCount(r)
  \/ UpdateVoteGet(r) \/ UpdateVoteGetTarget(r) \/ UpdateVoteDecrement(r)
  \/ UpdateVoteIncrement(r) \/ UpdateVoteSetType(r)

SolutionSteps(r) ==
  \/ MarkSolutionAuthorize(r) \/ MarkSolutionGetPost(r) \/ MarkSolutionGetReply(r)
  \/ MarkSolutionGetOld(r) \/ MarkSolutionClearOld(r) \/ MarkSolutionSetFlag(r)
  \/ MarkSolutionSetPost(r)
  \/ RemoveSolutionAuthorize(r) \/ RemoveSolutionGetPost(r)
  \/ RemoveSolutionGetOld(r) \/ RemoveSolutionClearOld(r)
  \/ RemoveSolutionSetPost(r)

DeletePostSteps(r) ==
  \/ DeletePostGetPost(r) \/ DeletePostQueryReplies(r) \/ DeletePostQueryVotes(r)
  \/ DeletePostCommit(r)

\* without DeleteReplyClearSolution, which needs a marked solution
DeleteReplySteps(r) ==
  \/ DeleteReplyGetReply(r) \/ DeleteReplyGetPost(r)
  \/ DeleteReplyQueryVotes(r) \/ DeleteReplyCommit(r)

\* without DeleteReplyClearSolution, which needs a marked solution
DeleteSteps(r) ==
  \/ DeletePostGetPost(r) \/ DeletePostQueryReplies(r) \/ DeletePostQueryVotes(r)
  \/ DeletePostCommit(r)
  \/ DeleteReplyGetReply(r) \/ DeleteReplyGetPost(r)
  \/ DeleteReplyQueryVotes(r) \/ DeleteReplyCommit(r)

\* Vote ledger, one request at a time: posts and replies written by one author,
\* votes by every user, deletions attempted by every user.
Next ==
  \/ StartCreatePost(1, Author) \/ CreatePostSteps(1)
  \/ StartCreateReply(1, Author, {NULL}) \/ CreateReplySteps(1)
  \/ StartVote(1, AnyPost, AnyReply) \/ VoteSteps(1)
  \/ StartGetVote(1, AnyPost, AnyReply) \/ GetVoteLookup(1)
  \/ StartDeletePost(1) \/ StartDeleteReply(1) \/ DeleteSteps(1)

Spec == Init /\ [][Next]_vars

\* Quote composer: a chain of replies, each answering the one posted before.
NextQuote ==
  \/ ComposerStart
  \/ ComposerStrip
  \/ ComposerTruncate
  \/ ComposerCompose

SpecQuote == Init /\ [][NextQuote]_vars

\* Users collection, one request at a time.
NextUsers ==
  \/ StartCreateUser(1) \/ CreateUserSet(1)
  \/ StartUpdateUsername(1) \/ UpdateUsernameCheck(1)
  \/ UpdateUsernameGet(1) \/ UpdateUsernameUpdate(1)

SpecUsers == Init /\ [][NextUsers]_vars

\* Solution marker, one request at a time.
NextSolution ==
  \/ StartCreatePost(1, Users) \/ CreatePostSteps(1)
  \/ StartCreateReply(1, Users, {NULL}) \/ CreateReplySteps(1)
  \/ StartMarkSolution(1, Users) \/ StartRemoveSolution(1, Users)
  \/ SolutionSteps(1)
  \/ StartDeletePost(1) \/ StartDeleteReply(1) \/ DeleteSteps(1)
  \/ DeleteReplyClearSolution(1)

SpecSolution == Init /\ [][NextSolution]_vars

\* Vote ledger, two requests interleaved at every database call, all votes
\* cast on the first post.
NextVotesRace ==
  \E r \in Requests :
    \/ StartCreatePost(r, Author) \/ CreatePostSteps(r)
    \/ StartVote(r, FirstPost, {}) \/ VoteSteps(r)

SpecVotesRace == Init /\ [][NextVotesRace]_vars

\* Solution marker, two requests interleaved at every database call.
NextSolutionRace ==
  \E r \in Requests :
    \/ StartCreatePost(r, Author) \/ CreatePostSteps(r)
    \/ StartCreateReply(r, Author, {NULL}) \/ CreateReplySteps(r)
    \/ StartMarkSolution(r, Author) \/ StartRemoveSolution(r, Author)
    \/ SolutionSteps(r)

SpecSolutionRace == Init /\ [][NextSolutionRace]_vars

\* Post deletion against reply creation, two requests interleaved at every
\* database call.
NextDeleteRace ==
  \E r \in Requests :
    \/ StartCreatePost(r, Author) \/ CreatePostSteps(r)
    \/ StartCreateReply(r, Author, {NULL}) \/ CreateReplySteps(r)
    \/ StartDeletePost(r) \/ DeletePostSteps(r)

SpecDeleteRace == Init /\ [][NextDeleteRace]_vars

\* Reply trees, one request at a time: the body of a createReply request
\* carries any parentReplyId, null included.
AnyParent == {NULL} \cup AnyReply

NextParents ==
  \/ StartCreatePost(1, Author) \/ CreatePostSteps(1)
  \/ StartCreateReply(1, Author, AnyParent) \/ CreateReplySteps(1)
  \/ StartDeleteReply(1) \/ DeleteReplySteps(1)

SpecParents == Init /\ [][NextParents]_vars

\* the same, with every received request carried through to its response
\* (each await of a handler resolves and the handler continues)
SpecParentsFair ==
  /\ SpecParents
  /\ WF_vars(CreatePostSteps(1) \/ CreateReplySteps(1) \/ DeleteReplySteps(1))

\* ------------------------------------------------------------------------
\* Properties of the storage layer
\* ------------------------------------------------------------------------
Done(r, op) == req[r].pc = "done" /\ req[r].op = op
SameTarget(v, w) == v.postId = w.postId /\ v.replyId = w.replyId
VotesOfTypeOn(w, voteType) ==
  {k \in DOMAIN votes : SameTarget(votes[k], w) /\ votes[k].voteType = voteType}
StoredTarget(w) ==
  IF TargetOfPost(w) THEN GetDoc(posts, w.postId) ELSE GetDoc(replies, w.replyId)
SolutionsOf(p) == {k \in DOMAIN replies : replies[k].postId = p /\ replies[k].isSolution}

\* C3: at most one stored vote record per (voter, target), also when
\* createVote requests interleave at every database call.
C3_OneVotePerVoterAndTarget ==
  \A k1, k2 \in DOMAIN votes :
    (votes[k1].userId = votes[k2].userId /\ SameTarget(votes[k1], votes[k2]))
      => k1 = k2

\* C4: at most one reply of a post has isSolution = true, also when
\* markSolution and removeSolution requests interleave at every database call.
C4_AtMostOneSolution ==
  \A p \in DOMAIN posts : Cardinality(SolutionsOf(p)) <= 1

\* C5: after a successful deletePost(p) no stored reply has postId = p and no
\* stored vote references p or a reply that belonged to p.
C5_DeletePostCascade ==
  (Done(1, "deletePost") /\ req[1].status = 200) =>
    /\ RepliesOfPost(req[1].postId) = {}
    /\ \A k \in DOMAIN votes :
         /\ votes[k].postId # req[1].postId
         /\ votes[k].replyId \notin req[1].repliesSnapshot

\* the voter's request found his vote of the other type and updateVote ran
SwitchedVote(r) ==
  /\ Done(r, "vote") /\ req[r].status = 200
  /\ req[r].vote # NoDoc
  /\ req[r].vote.voteType # req[r].voteType

\* C6: with requests run one at a time, a createVote by a voter whose vote on
\* the target has the other type lowers the old type's counter by exactly 1,
\* raises the new type's counter by exactly 1 and changes the type of the one
\* existing record.
C6_SwitchMovesOneUnit ==
  SwitchedVote(1) =>
    /\ UpdateVoteRead(1) # NoDoc
    /\ CountOf(StoredTarget(req[1]), req[1].vote.voteType)
         = CountOf(UpdateVoteRead(1), req[1].vote.voteType) - 1
    /\ CountOf(StoredTarget(req[1]), req[1].voteType)
         = CountOf(UpdateVoteRead(1), req[1].voteType) + 1
    /\ votes[req[1].vote.id].voteType = req[1].voteType
    /\ Cardinality({k \in DOMAIN votes :
                      votes[k].userId = req[1].userId /\ SameTarget(votes[k], req[1])}) = 1

\* the stored vote of the request's voter on the request's target has the
\* requested type
SameTypeVoteStored(w) ==
  \E k \in DOMAIN votes :
    /\ votes[k].userId = w.userId
    /\ SameTarget(votes[k], w)
    /\ votes[k].voteType = w.voteType

\* C7: createVote by a voter whose vote on the target already has the
\* requested type changes no counter and no vote record, and returns the
\* existing vote.
C7_SameTypeVoteIsNoOp ==
  [][(req[1].pc = "cv_getVote" /\ SameTypeVoteStored(req[1])) =>
       /\ posts' = posts /\ replies' = replies /\ votes' = votes
       /\ req'[1].pc = "done" /\ req'[1].status = 200
       /\ req'[1].existingVote \in {votes[k] : k \in DOMAIN votes}
       /\ req'[1].existingVote.userId = req[1].userId
       /\ SameTarget(req'[1].existingVote, req[1])
       /\ req'[1].existingVote.voteType = req[1].voteType]_vars

\* a same-type vote on a reply has been answered with the existing vote while
\* the reply's counter stands at 1
C7_Witness ==
  /\ Done(1, "vote") /\ req[1].status = 200
  /\ req[1].existingVote # NoDoc
  /\ req[1].existingVote.voteType = req[1].voteType
  /\ ~TargetOfPost(req[1])
  /\ CountOf(StoredTarget(req[1]), req[1].voteType) = 1

\* the counter snapshot createVote computed its write from
CreateVoteRead(r) == IF TargetOfPost(req[r]) THEN req[r].post ELSE req[r].reply

\* two finished createVote requests of different voters that each inserted a
\* record of the same type on the same target, after reading the same counter
LostUpdateRace(r1, r2) ==
  /\ r1 # r2
  /\ Done(r1, "vote") /\ Done(r2, "vote")
  /\ req[r1].status = 200 /\ req[r2].status = 200
  /\ req[r1].userId # req[r2].userId
  /\ SameTarget(req[r1], req[r2]) /\ req[r1].voteType = req[r2].voteType
  /\ req[r1].id # NULL /\ req[r2].id # NULL /\ req[r1].id # req[r2].id
  /\ \A r \in {r1, r2} :
       /\ CreateVoteRead(r) # NoDoc
       /\ req[r].id \in DOMAIN votes
       /\ votes[req[r].id].userId = req[r].userId
       /\ votes[req[r].id].voteType = req[r].voteType
  /\ CountOf(CreateVoteRead(r1), req[r1].voteType)
       = CountOf(CreateVoteRead(r2), req[r2].voteType)

\* C8: when two voters' createVote requests of the same type on the same
\* target both read the counter before either wrote it, the counter ends one
\* above the value read although two records were inserted, and stays so
\* when both requests have finished.
C8_LostCounterUpdate ==
  \A r1, r2 \in Requests :
    LostUpdateRace(r1, r2) =>
      CountOf(StoredTarget(req[r1]), req[r1].voteType)
        = CountOf(CreateVoteRead(r1), req[r1].voteType) + 1

\* both requests have finished and the counter is lower than the number of
\* stored votes of that type on the target
C8_Witness ==
  \E r1, r2 \in Requests :
    /\ LostUpdateRace(r1, r2)
    /\ CountOf(StoredTarget(req[r1]), req[r1].voteType)
         < Cardinality(VotesOfTypeOn(req[r1], req[r1].voteType))

\* a markSolution request that succeeded on a post whose solution was another reply
SwappedSolution(r) ==
  /\ Done(r, "markSolution") /\ req[r].status = 200
  /\ Truthy(req[r].post.solutionId)
  /\ req[r].post.solutionId # req[r].replyId

\* C9: with requests run one at a time, a successful markSolution(post, r2) on
\* a post whose solution is r1 # r2 ends with r1 unflagged, r2 flagged,
\* post.solutionId = r2 and no other reply of the post flagged.
C9_MarkSolutionSwaps ==
  SwappedSolution(1) =>
    /\ req[1].post.solutionId \in DOMAIN replies
    /\ ~replies[req[1].post.solutionId].isSolution
    /\ replies[req[1].replyId].isSolution
    /\ posts[req[1].postId].solutionId = req[1].replyId
    /\ SolutionsOf(req[1].postId) = {req[1].replyId}

\* a swap has completed on a post with two replies
C9_Witness ==
  /\ SwappedSolution(1)
  /\ Cardinality(RepliesOfPost(req[1].postId)) = 2
  /\ req[1].oldSolutionReply # NoDoc
  /\ req[1].oldSolutionReply.isSolution

\* ------------------------------------------------------------------------
\* Properties of the thread assembler
\* ------------------------------------------------------------------------
InputReplies == {dataReplies[i] : i \in 1..Len(dataReplies)}
InputIds == {dataReplies[i].id : i \in 1..Len(dataReplies)}
InSeq(s, x) == \E i \in 1..Len(s) : s[i] = x
Count(s, x) == Cardinality({i \in 1..Len(s) : s[i] = x})
BucketPlaces(x) ==
  {<<k, i>> \in UNION {{k1} \X (1..Len(childReplies[k1])) : k1 \in DOMAIN childReplies} :
     childReplies[k][i] = x}
Occurrences(x) == Count(topLevelReplies, x) + Cardinality(BucketPlaces(x))
OutputSize ==
  Len(topLevelReplies)
  + Cardinality(UNION {{k} \X (1..Len(childReplies[k])) : k \in DOMAIN childReplies})
IsOrphan(reply) == Truthy(reply.parentReplyId) /\ reply.parentReplyId \notin InputIds
IsChronological(s) == \A i \in 1..(Len(s) - 1) : s[i].createdAt <= s[i + 1].createdAt

C2_OrphanIsTopLevel ==
  tpc = "done" =>
    \A r \in InputReplies :
      IsOrphan(r) => InSeq(topLevelReplies, r) /\ BucketPlaces(r) = {}

\* C12: with requests run one at a time, after a successful deleteReply(r)
\* the post of r has solutionId null when r was its solution (by the post's
\* reference or by r's flag), and the solutionId it had before otherwise.
C12_DeleteReplyClearsSolution ==
  (Done(1, "deleteReply") /\ req[1].status = 200) =>
    /\ req[1].replyId \notin DOMAIN replies
    /\ req[1].post # NoDoc
    /\ req[1].reply.postId \in DOMAIN posts
    /\ posts[req[1].reply.postId].solutionId =
         IF req[1].post.solutionId = req[1].replyId \/ req[1].reply.isSolution
         THEN NULL ELSE req[1].post.solutionId

\* the deleted reply was the solution of its post
C12_Witness ==
  /\ Done(1, "deleteReply") /\ req[1].status = 200
  /\ req[1].reply.isSolution
  /\ req[1].post.solutionId = req[1].replyId
  /\ posts[req[1].reply.postId].solutionId = NULL

\* a reply that was not the solution has been deleted from a post that keeps
\* its solution
C12_WitnessOther ==
  /\ Done(1, "deleteReply") /\ req[1].status = 200
  /\ ~req[1].reply.isSolution
  /\ Truthy(posts[req[1].reply.postId].solutionId)

\* C13: a deletePost or deleteReply request whose userId is not the stored
\* authorId of the target is answered 403 and changes no post, reply or vote.
C13_NonAuthorDeleteRejected ==
  [][/\ (/\ req[1].pc = "dp_getPost"
          /\ req[1].postId \in DOMAIN posts
          /\ posts[req[1].postId].authorId # req[1].userId)
        => /\ req'[1].pc = "done" /\ req'[1].status = 403
           /\ posts' = posts /\ replies' = replies /\ votes' = votes
     /\ (/\ req[1].pc = "dr_getReply"
          /\ req[1].replyId \in DOMAIN replies
          /\ replies[req[1].replyId].authorId # req[1].userId)
        => /\ req'[1].pc = "done" /\ req'[1].status = 403
           /\ posts' = posts /\ replies' = replies /\ votes' = votes]_vars

\* a post with a reply and a vote is still stored after a non-author's
\* deletePost was answered 403
C13_Witness ==
  /\ Done(1, "deletePost") /\ req[1].status = 403
  /\ req[1].postId \in DOMAIN posts
  /\ posts[req[1].postId].authorId # req[1].userId
  /\ RepliesOfPost(req[1].postId) # {}
  /\ VotesOnPost(req[1].postId) # {}

\* C14: a markSolution or removeSolution request whose userId is not the
\* post's authorId is answered 403 and changes no solutionId and no flag.
C14_NonAuthorSolutionRejected ==
  [][(/\ req[1].pc \in {"ms_authorize", "rs_authorize"}
      /\ req[1].postId \in DOMAIN posts
      /\ posts[req[1].postId].authorId # req[1].userId)
       => /\ req'[1].pc = "done" /\ req'[1].status = 403
          /\ posts' = posts /\ replies' = replies]_vars

\* a non-author's removeSolution was answered 403 and the post still has its
\* flagged solution
C14_Witness ==
  /\ Done(1, "removeSolution") /\ req[1].status = 403
  /\ req[1].postId \in DOMAIN posts
  /\ posts[req[1].postId].authorId # req[1].userId
  /\ Truthy(posts[req[1].postId].solutionId)
  /\ SolutionsOf(req[1].postId) = {posts[req[1].postId].solutionId}

\* C15: markSolution(post, reply) with a reply that does not exist or that
\* belongs to another post fails and changes no solutionId and no flag; no
\* step of markAsSolution up to that check writes anything.
C15_InvalidReplyRejected ==
  [][/\ req[1].pc \in {"ms_authorize", "ms_getPost", "ms_getReply"}
          => posts' = posts /\ replies' = replies
     /\ (/\ req[1].pc = "ms_getReply"
          /\ \/ req[1].replyId \notin DOMAIN replies
             \/ replies[req[1].replyId].postId # req[1].postId)
        => req'[1].pc = "done" /\ req'[1].status \in {400, 404}]_vars

\* markSolution with a reply of another post has failed and the previous
\* solution of the post is still flagged
C15_Witness ==
  /\ Done(1, "markSolution") /\ req[1].status # 200
  /\ req[1].post # NoDoc
  /\ req[1].replyId \in DOMAIN replies
  /\ replies[req[1].replyId].postId # req[1].postId
  /\ Truthy(req[1].post.solutionId)
  /\ posts[req[1].postId].solutionId = req[1].post.solutionId
  /\ SolutionsOf(req[1].postId) = {req[1].post.solutionId}

\* C17: looking up the vote of a voter who has no vote on the target is
\* answered with the absence outcome (404 'Vote not found', no vote
\* returned), not with the error outcome 500, and changes no stored state.
C17_AbsentVoteIsNotAnError ==
  [][(/\ req[1].pc = "gv_lookup"
      /\ MatchingVotes(req[1].userId, req[1].postId, req[1].replyId) = {})
       => /\ req'[1].pc = "done" /\ req'[1].status = 404
          /\ req'[1].existingVote = NoDoc
          /\ posts' = posts /\ replies' = replies /\ votes' = votes]_vars

\* a lookup by a voter without a vote on a post that another voter has
\* voted on was answered with the absence outcome
C17_Witness ==
  /\ Done(1, "getVote") /\ req[1].status = 404
  /\ req[1].postId \in DOMAIN posts
  /\ VotesOnPost(req[1].postId) # {}
  /\ MatchingVotes(req[1].userId, req[1].postId, req[1].replyId) = {}

\* C18: no two stored users have the same display name, after any sequence
\* of createUser and username-change requests.  (createUser stores whatever
\* name the body carries without looking for it in the collection.)
C18_UsernamesUnique ==
  \A u1, u2 \in DOMAIN users :
    users[u1].username = users[u2].username => u1 = u2

\* C19: a createUser request for a user id that is already stored leaves the
\* stored record unchanged.  (set() overwrites the document.)
C19_CreateUserKeepsExisting ==
  [][(req[1].pc = "cu_set" /\ req[1].userId \in DOMAIN users)
       => /\ req[1].userId \in DOMAIN users'
          /\ users'[req[1].userId] = users[req[1].userId]]_vars

\* the composer has posted a reply that quotes the reply it answers
QuotedReplyPosted == composer.pc = "posted" /\ composer.replyTo = "found"

\* C20: when the quoted text (the answered reply's text after stripping an
\* existing quote) has more than 100 characters the quote is its first 100
\* characters followed by '...', otherwise the quoted text itself; the posted
\* body is '@<author>:', newline, '> ' and the quote, a blank line, the new
\* text.
C20_QuoteTruncatedAndFramed ==
  QuotedReplyPosted =>
    LET text == composer.replyText
        quote == composer.quoteText
        head == <<"@">> \o AuthorName(composer.username) \o <<":", "\n", ">", " ">>
        body == composer.finalContent
    IN /\ Len(text) > 100 =>
            /\ Len(quote) = 103
            /\ \A i \in 1..100 : quote[i] = text[i]
            /\ \A i \in 101..103 : quote[i] = "."
       /\ Len(text) <= 100 => quote = text
       /\ Len(body) = Len(head) + Len(quote) + 2 + Len(composer.content)
       /\ SubSeq(body, 1, Len(head)) = head
       /\ SubSeq(body, Len(head) + 1, Len(head) + Len(quote)) = quote
       /\ body[Len(head) + Len(quote) + 1] = "\n"
       /\ body[Len(head) + Len(quote) + 2] = "\n"
       /\ SubSeq(body, Len(head) + Len(quote) + 3, Len(body)) = composer.content

\* a reply that itself began with a quote was answered; what remained after
\* stripping had more than 100 characters and was cut
C20_Witness ==
  /\ QuotedReplyPosted
  /\ composer.replyText # composer.target
  /\ Len(composer.replyText) = 101
  /\ Len(composer.quoteText) = 103

\* sub occurs in s as a run of consecutive characters
IsSubstring(sub, s) ==
  \E i \in 0..(Len(s) - Len(sub)) : SubSeq(s, i + 1, i + Len(sub)) = sub

\* C21: when the answered reply was itself composed with a quote, the text
\* quoted from it is taken only from what its author wrote after the quote
\* block, never from the text it quoted.  (Only the first line of a quote
\* gets the '> ' prefix, so with a multi-line quote the lines after the
\* first '>' run are taken for the author's text.)
C21_QuoteDepthOne ==
  (QuotedReplyPosted /\ composer.targetReplyTo = "found")
     => IsSubstring(composer.replyText, composer.targetContent)

\* stored votes of a type that reference post id / reply id
VotesOfTypeOnPost(id, voteType) ==
  {k \in VotesOnPost(id) : votes[k].voteType = voteType}
VotesOfTypeOnReply(id, voteType) ==
  {k \in VotesOnReply(id) : votes[k].voteType = voteType}

\* C22: with requests run one at a time, between requests every stored
\* post's and reply's upvotes (downvotes) counter equals the number of stored
\* upvote (downvote) records that reference it.  (Votes on the replies of a
\* deleted post stay stored and reference the next reply created with the
\* same id.)
C22_CountersMatchVotes ==
  ~InFlight(1) =>
    \A t \in VoteTypes :
      /\ \A p \in DOMAIN posts :
           CountOf(posts[p], t) = Cardinality(VotesOfTypeOnPost(p, t))
      /\ \A c \in DOMAIN replies :
           CountOf(replies[c], t) = Cardinality(VotesOfTypeOnReply(c, t))

\* C25: when a deletePost(p) has succeeded and every request has finished,
\* no stored reply references the deleted post, however the createReply
\* requests on p were interleaved with it.  (A createReply that passed the
\* route's getPost check stores its reply after the batch was committed.)
C25_NoReplyOfDeletedPost ==
  \A r \in Requests :
    (/\ Done(r, "deletePost") /\ req[r].status = 200
     /\ \A q \in Requests : ~InFlight(q)
     /\ req[r].postId \notin DOMAIN posts)
      => RepliesOfPost(req[r].postId) = {}

\* two finished, successful create requests of the same kind, each of which
\* computed an id and stored a record under it
BothCreated(r1, r2, op) ==
  /\ r1 # r2
  /\ Done(r1, op) /\ Done(r2, op)
  /\ req[r1].status = 200 /\ req[r2].status = 200
  /\ req[r1].id # NULL /\ req[r2].id # NULL

\* C26: when two create requests of the same kind (createPost, createReply, createVote)
\* run concurrently and both succeed, their records are stored under
\* distinct ids, so neither overwrites the other.  (Both read the same last
\* id before either stores its record, and both store under last + 1.)
C26_ConcurrentCreatesDistinctIds ==
  \A r1, r2 \in Requests :
    \A op \in {"createPost", "createReply", "vote"} :
      BothCreated(r1, r2, op) => req[r1].id # req[r2].id

\* C27: with requests run one at a time, between requests a stored post's
\* solutionId is r exactly when r is a stored reply of that post with
\* isSolution = true, after any sequence of markSolution, removeSolution,
\* deleteReply and deletePost.
C27_SolutionIdMatchesFlag ==
  ~InFlight(1) =>
    \A p \in DOMAIN posts :
      \A c \in 1..MaxReplyId :
        posts[p].solutionId = c
          <=> (c \in DOMAIN replies /\ replies[c].postId = p /\ replies[c].isSolution)

\* a post whose solution was swapped from one reply to the other has lost it
\* again by a removeSolution request
C27_Witness ==
  /\ Done(1, "removeSolution") /\ req[1].status = 200
  /\ req[1].oldSolutionReply # NoDoc
  /\ req[1].postId \in DOMAIN posts
  /\ posts[req[1].postId].solutionId = NULL
  /\ Cardinality(RepliesOfPost(req[1].postId)) = 2
  /\ SolutionsOf(req[1].postId) = {}

\* C28: with requests run one at a time, every stored reply with a non-null
\* parentReplyId references a stored reply of the same post.  (createReply
\* stores the parentReplyId of the body unchecked, and deleteReply leaves
\* the children of the deleted reply in place.)
C28_ParentIsStoredReplyOfSamePost ==
  ~InFlight(1) =>
    \A c \in DOMAIN replies :
      Truthy(replies[c].parentReplyId) =>
        /\ replies[c].parentReplyId \in DOMAIN replies
        /\ replies[replies[c].parentReplyId].postId = replies[c].postId

\* C29: with requests run one at a time, an id assigned by createPost,
\* createReply or createVote was never the id of another record of that
\* collection before: an id whose record has been deleted is never stored
\* again.  (The id is the highest stored id + 1, so deleting the newest
\* record frees its id for the next create.)
C29_IdsNeverReused ==
  /\ \A i \in 1..MaxPostId :
       [](i \in DOMAIN posts => [](i \notin DOMAIN posts => [](i \notin DOMAIN posts)))
  /\ \A i \in 1..MaxReplyId :
       [](i \in DOMAIN replies => [](i \notin DOMAIN replies => [](i \notin DOMAIN replies)))
  /\ \A i \in 1..MaxVoteId :
       [](i \in DOMAIN votes => [](i \notin DOMAIN votes => [](i \notin DOMAIN votes)))

\* C30: the upvotes and downvotes counters of every stored post and reply
\* are >= 0 in every reachable state, also when vote requests interleave at
\* every database call.
C30_CountersNonNegative ==
  /\ \A p \in DOMAIN posts : posts[p].upvotes >= 0 /\ posts[p].downvotes >= 0
  /\ \A c \in DOMAIN replies : replies[c].upvotes >= 0 /\ replies[c].downvotes >= 0

\* a vote was switched on a target whose counter of the old type had been
\* read as 0 (two votes of that type were stored, one counted): the counter
\* stayed at 0
C30_Witness ==
  \E r \in Requests :
    /\ SwitchedVote(r)
    /\ UpdateVoteRead(r) # NoDoc
    /\ CountOf(UpdateVoteRead(r), req[r].vote.voteType) = 0
    /\ StoredTarget(req[r]) # NoDoc
    /\ CountOf(StoredTarget(req[r]), req[r].vote.voteType) = 0

\* the next step of request r reads a post or reply that is not stored
AddressesMissing(r) ==
  \/ /\ req[r].pc \in {"cr_getPost", "ms_authorize", "rs_authorize", "dp_getPost"}
     /\ req[r].postId \notin DOMAIN posts
  \/ /\ req[r].pc = "v_getTarget"
     /\ IF TargetOfPost(req[r]) THEN req[r].postId \notin DOMAIN posts
                                 ELSE req[r].replyId \notin DOMAIN replies
  \/ /\ req[r].pc \in {"ms_getReply", "dr_getReply"}
     /\ req[r].replyId \notin DOMAIN replies

\* C16: every request that addresses a post or reply that does not exist
\* ends with outcome 404.  (deletePost and deleteReply answer 500, and
\* markSolution with a missing reply answers 400.)
C16_MissingTargetIs404 ==
  [][AddressesMissing(1) => req'[1].pc = "done" /\ req'[1].status = 404]_vars

\* the reply of the input with the given id (ids of an input are distinct)
InputReply(id) == CHOOSE r \in InputReplies : r.id = id

\* the root of the parent chain that starts at id: the ancestor with no
\* parent, NULL when the chain leaves the input or does not end within n links
RECURSIVE RootOfChain(_, _)
RootOfChain(id, n) ==
  IF id \notin InputIds THEN NULL
  ELSE IF ~Truthy(InputReply(id).parentReplyId) THEN id
  ELSE IF n = 0 THEN NULL
  ELSE RootOfChain(InputReply(id).parentReplyId, n - 1)

InBucket(key, r) == key \in DOMAIN childReplies /\ InSeq(childReplies[key], r)

\* the chain 1 <- 2 <- 3 with creation times 1, 2, 3
ChainExample ==
  <<[id |-> 1, parentReplyId |-> NULL, createdAt |-> 1],
    [id |-> 2, parentReplyId |-> 1, createdAt |-> 2],
    [id |-> 3, parentReplyId |-> 2, createdAt |-> 3]>>

\* C11: in the returned result a reply whose parent is top-level is in the
\* bucket keyed by the parent's id, and a reply whose parent is nested is in
\* the bucket keyed by the root of its parent chain, at any depth; the chain
\* 1 <- 2 <- 3 gives topLevel = [1] and children[1] = [2, 3].
C11_BucketIsChainRoot ==
  tpc = "done" =>
    /\ \A r \in InputReplies :
         (Truthy(r.parentReplyId) /\ RootOfChain(r.parentReplyId, MaxLen) # NULL)
           => /\ InBucket(RootOfChain(r.parentReplyId, MaxLen), r)
              /\ ~InSeq(topLevelReplies, r)
    /\ dataReplies = ChainExample =>
         /\ topLevelReplies = <<ChainExample[1]>>
         /\ DOMAIN childReplies = {1}
         /\ childReplies[1] = <<ChainExample[2], ChainExample[3]>>

\* a returned result for a chain of four replies: the deepest one sits in the
\* bucket of the root, three links up
C11_Witness ==
  /\ tpc = "done"
  /\ \E r \in InputReplies :
       /\ Truthy(r.parentReplyId)
       /\ RootOfChain(r.parentReplyId, MaxLen) # NULL
       /\ RootOfChain(r.parentReplyId, MaxLen) # r.parentReplyId
       /\ InputReply(r.parentReplyId).parentReplyId
            # RootOfChain(r.parentReplyId, MaxLen)
       /\ InBucket(RootOfChain(r.parentReplyId, MaxLen), r)

\* C23: organizeRepliesIntoThreads returns on every reply list, whatever the
\* parentReplyId values are.  (On a reply whose parent chain runs into a
\* cycle, a self-reference included, the while loop never exits.)
C23_AssemblerTerminates == <>(tpc = "done")

\* C24: every key of the returned childReplies map is the id of a reply in
\* topLevelReplies, so the page, which renders the buckets of top-level
\* replies only, shows every reply.  (A reply whose parent chain ends at an
\* id that is not in the input is filed under that id.)
C24_BucketKeysAreTopLevel ==
  tpc = "done" =>
    DOMAIN childReplies \subseteq
      {topLevelReplies[i].id : i \in 1..Len(topLevelReplies)}

\* C10: in the returned result topLevelReplies and every childReplies bucket
\* are ordered by non-decreasing createdAt.
C10_BucketsChronological ==
  tpc = "done" =>
    /\ IsChronological(topLevelReplies)
    /\ \A k \in DOMAIN childReplies : IsChronological(childReplies[k])

\* a returned result for an input that was not in chronological order, with
\* two top-level replies and a bucket of two replies of different times
C10_Witness ==
  /\ tpc = "done"
  /\ ~IsChronological(dataReplies)
  /\ Len(topLevelReplies) >= 1
  /\ \E k \in DOMAIN childReplies :
       /\ Len(childReplies[k]) = 2
       /\ childReplies[k][1].createdAt < childReplies[k][2].createdAt

====
